---- MODULE Spec2Model ----
(***************************************************************************)
(* Inventory and lending tracker (inventory2.py).                          *)
(*                                                                         *)
(* Python strings are sequences of one-character strings, so that          *)
(* str.strip, str.lower, str.split, int() and the f-string formatting of   *)
(* the two files are modelled by what they do.  A Python dict is a         *)
(* sequence of [k, v] entries in insertion order.  A file is a record      *)
(* [exists, lines], each line a string that ends with a newline.           *)
(***************************************************************************)
EXTENDS Integers, Sequences, FiniteSets, TLC

VARIABLES pc, inventory, users, invFile, logFile, last

vars == <<pc, inventory, users, invFile, logFile, last>>

(* ------------------------------ bounds -------------------------------- *)

\* largest absolute quantity the model lets a stock or a loan reach
MaxQty == 2
\* largest number of lines the model lets the transaction log reach
MaxLog == 2
\* the longest inventory file and the longest log a run is started on
MaxInventoryLines == 2
MaxLogLines == 3

(* ------------------------------ strings ------------------------------- *)

Str_ham == <<"h", "a", "m">>
Str_saw == <<"s", "a", "w">>
Str_Saw == <<"S", "a", "w">>
Str_al == <<"a", "l">>
Str_al_padded == <<" ", "a", "l">>
Str_bo == <<"b", " ", "|", " ", "o">>
Str_1 == <<"1">>
Str_2 == <<"2">>
Str_0 == <<"0">>
Str_minus1 == <<"-", "1">>
Str_9 == <<"9">>
Str_empty == <<>>
Str_Lend == <<"L", "e", "n", "d">>
Str_Return == <<"R", "e", "t", "u", "r", "n">>
Str_done == <<"d", "o", "n", "e">>

Whitespace == {" ", "\t", "\n", "\r"}
LowerLetters ==
  <<"a", "b", "c", "d", "e", "f", "g", "h", "i", "j", "k", "l", "m",
    "n", "o", "p", "q", "r", "s", "t", "u", "v", "w", "x", "y", "z">>
UpperLetters ==
  <<"A", "B", "C", "D", "E", "F", "G", "H", "I", "J", "K", "L", "M",
    "N", "O", "P", "Q", "R", "S", "T", "U", "V", "W", "X", "Y", "Z">>
DigitChars == <<"0", "1", "2", "3", "4", "5", "6", "7", "8", "9">>

Range(s) == {s[i] : i \in 1..Len(s)}

IndexIn(seq, c) == CHOOSE i \in 1..Len(seq) : seq[i] = c

UpperSet == Range(UpperLetters)
LetterSet == Range(LowerLetters) \cup Range(UpperLetters)
DigitSet == Range(DigitChars)
LowerOf == [c \in UpperSet |-> LowerLetters[IndexIn(UpperLetters, c)]]
DigitOf == [c \in DigitSet |-> IndexIn(DigitChars, c) - 1]

\* str.lower()
LowerChar(c) == IF c \in UpperSet THEN LowerOf[c] ELSE c

Lower(s) == [i \in 1..Len(s) |-> LowerChar(s[i])]

\* str.isalpha(): non-empty and letters only
IsAlpha(s) ==
  /\ Len(s) > 0
  /\ \A i \in 1..Len(s) : s[i] \in LetterSet

RECURSIVE LStrip(_)
LStrip(s) ==
  IF s # <<>> /\ Head(s) \in Whitespace THEN LStrip(Tail(s)) ELSE s

RECURSIVE RStrip(_)
RStrip(s) ==
  IF s # <<>> /\ s[Len(s)] \in Whitespace
  THEN RStrip(SubSeq(s, 1, Len(s) - 1))
  ELSE s

\* str.strip()
Strip(s) == RStrip(LStrip(s))

StartsWith(s, p) == Len(p) <= Len(s) /\ SubSeq(s, 1, Len(p)) = p

RECURSIVE SplitFrom(_, _, _)
SplitFrom(s, sep, cur) ==
  IF s = <<>> THEN <<cur>>
  ELSE IF StartsWith(s, sep)
       THEN <<cur>> \o SplitFrom(SubSeq(s, Len(sep) + 1, Len(s)), sep, <<>>)
       ELSE SplitFrom(Tail(s), sep, Append(cur, Head(s)))

\* str.split(sep) with a non-empty separator
Split(s, sep) == SplitFrom(s, sep, <<>>)

RECURSIVE DigitsValue(_)
DigitsValue(s) ==
  IF s = <<>> THEN 0
  ELSE 10 * DigitsValue(SubSeq(s, 1, Len(s) - 1))
       + DigitOf[s[Len(s)]]

IsDigits(s) == Len(s) > 0 /\ \A i \in 1..Len(s) : s[i] \in DigitSet

\* int(str): surrounding whitespace and one sign are accepted; anything
\* else raises ValueError (ok = FALSE)
ParseInt(s) ==
  LET t == Strip(s)
      signed == t # <<>> /\ Head(t) \in {"-", "+"}
      body == IF signed THEN Tail(t) ELSE t
  IN IF ~IsDigits(body) THEN [ok |-> FALSE, val |-> 0]
     ELSE [ok |-> TRUE,
           val |-> IF signed /\ Head(t) = "-"
                   THEN 0 - DigitsValue(body) ELSE DigitsValue(body)]

RECURSIVE NatToStr(_)
NatToStr(n) ==
  IF n < 10 THEN <<DigitChars[n + 1]>>
  ELSE NatToStr(n \div 10) \o <<DigitChars[(n % 10) + 1]>>

\* str(int), as the f-strings format a quantity
IntToStr(n) == IF n < 0 THEN <<"-">> \o NatToStr(0 - n) ELSE NatToStr(n)

(* ------------------------------- dicts -------------------------------- *)

EmptyDict == <<>>

Has(d, key) == \E i \in 1..Len(d) : d[i].k = key

Get(d, key) == d[CHOOSE i \in 1..Len(d) : d[i].k = key].v

\* d[key] = val: an existing key keeps its position, a new key goes last
Put(d, key, val) ==
  IF Has(d, key)
  THEN [i \in 1..Len(d) |-> IF d[i].k = key THEN [k |-> key, v |-> val] ELSE d[i]]
  ELSE Append(d, [k |-> key, v |-> val])

RECURSIVE Del(_, _)
Del(d, key) ==
  IF d = <<>> THEN <<>>
  ELSE IF Head(d).k = key THEN Del(Tail(d), key)
       ELSE <<Head(d)>> \o Del(Tail(d), key)

\* value of key, 0 when the key is absent
GetOr0(d, key) == IF Has(d, key) THEN Get(d, key) ELSE 0

\* self.users, whose iteration order no operation below depends on: a
\* function from the known borrower names to their borrowed_items
NoUsers == [u \in {} |-> EmptyDict]

Known(us, name) == name \in DOMAIN us

SetUser(us, name, borrowed) ==
  [u \in DOMAIN us \cup {name} |-> IF u = name THEN borrowed ELSE us[u]]

(* ------------------------------ class User ---------------------------- *)

\* what the users of the set names hold of an item, all together
RECURSIVE SumHeld(_, _, _)
SumHeld(us, names, item) ==
  IF names = {} THEN 0
  ELSE LET u == CHOOSE n \in names : TRUE
       IN GetOr0(us[u], item) + SumHeld(us, names \ {u}, item)

\* borrowed_items summed over self.users.values()
HeldByAll(us, item) == SumHeld(us, DOMAIN us, item)

\* borrow_item that overwrites the entry instead of adding to it
UserBorrowItem_Overwrite(borrowed, item, quantity) ==
  Put(borrowed, item, quantity)

\* User.borrow_item: add to an existing entry or create it
UserBorrowItem(borrowed, item, quantity) ==
  IF Has(borrowed, item)
  THEN Put(borrowed, item, Get(borrowed, item) + quantity)
  ELSE Put(borrowed, item, quantity)

\* return_item that keeps an entry that has reached 0
UserReturnItem_NoPrune(borrowed, item, quantity) ==
  IF Has(borrowed, item) /\ Get(borrowed, item) >= quantity
  THEN [ok |-> TRUE,
        items |-> Put(borrowed, item, Get(borrowed, item) - quantity)]
  ELSE [ok |-> FALSE, items |-> borrowed]

\* return_item that compares with > instead of >=
UserReturnItem_Strict(borrowed, item, quantity) ==
  IF Has(borrowed, item) /\ Get(borrowed, item) > quantity
  THEN [ok |-> TRUE,
        items |-> Put(borrowed, item, Get(borrowed, item) - quantity)]
  ELSE [ok |-> FALSE, items |-> borrowed]

\* return_item that gives back what is held when too much is asked for,
\* and then answers False
UserReturnItem_TakeWhatIsHeld(borrowed, item, quantity) ==
  IF Has(borrowed, item) /\ Get(borrowed, item) >= quantity
  THEN LET left == Get(borrowed, item) - quantity
       IN [ok |-> TRUE,
           items |-> IF left = 0 THEN Del(borrowed, item)
                     ELSE Put(borrowed, item, left)]
  ELSE [ok |-> FALSE, items |-> Del(borrowed, item)]

\* User.return_item: [ok, items]; an entry that reaches 0 is deleted
UserReturnItem(borrowed, item, quantity) ==
  IF Has(borrowed, item) /\ Get(borrowed, item) >= quantity
  THEN LET left == Get(borrowed, item) - quantity
       IN [ok |-> TRUE,
           items |-> IF left = 0 THEN Del(borrowed, item)
                     ELSE Put(borrowed, item, left)]
  ELSE [ok |-> FALSE, items |-> borrowed]

(* ------------------------------ the files ----------------------------- *)

NoFile == [exists |-> FALSE, lines |-> <<>>]

InventorySep == <<":", " ">>
LogSep == <<" ", "|", " ">>
Newline == <<"\n">>

\* a line written with ':' alone between name and quantity
InventoryLine_NoBlank(e) == e.k \o <<":">> \o IntToStr(e.v) \o Newline

InventoryLine(e) == e.k \o InventorySep \o IntToStr(e.v) \o Newline

\* save_inventory: the whole file is rewritten, one line per entry, in
\* the dict's iteration order
SaveInventory(inv) ==
  [exists |-> TRUE, lines |-> [i \in 1..Len(inv) |-> InventoryLine(inv[i])]]

LogLine(action, borrower, item, quantity) ==
  action \o LogSep \o borrower \o LogSep \o item \o LogSep
    \o IntToStr(quantity) \o Newline

\* log_transaction that opens the log with mode "w"
LogTransaction_Truncating(file, action, borrower, item, quantity) ==
  [exists |-> TRUE, lines |-> <<LogLine(action, borrower, item, quantity)>>]

\* log_transaction: one line appended (mode "a" creates a missing file)
LogTransaction(file, action, borrower, item, quantity) ==
  [exists |-> TRUE,
   lines |-> Append(file.lines, LogLine(action, borrower, item, quantity))]

RECURSIVE LoadInventoryLines(_, _)
LoadInventoryLines(lines, inv) ==
  IF lines = <<>> THEN inv
  ELSE LET fields == Split(Strip(Head(lines)), InventorySep)
       IN IF Len(fields) # 2 THEN inv    \* ValueError on unpacking
          ELSE LET q == ParseInt(fields[2])
               IN IF ~q.ok THEN inv      \* ValueError in int()
                  ELSE LoadInventoryLines(Tail(lines), Put(inv, fields[1], q.val))

\* load_inventory into the empty dict of __init__; the entries read before
\* a ValueError stay in the dict
LoadInventory(file) ==
  IF ~file.exists THEN EmptyDict ELSE LoadInventoryLines(file.lines, EmptyDict)

\* load_transactions that replays the Return records too
RECURSIVE LoadTransactionsLines_ReplaysReturns(_, _)
LoadTransactionsLines_ReplaysReturns(lines, us) ==
  IF lines = <<>> THEN us
  ELSE LET fields == Split(Strip(Head(lines)), LogSep)
       IN IF Len(fields) # 4 THEN us
          ELSE LET q == ParseInt(fields[4])
                   known == IF Known(us, fields[2]) THEN us
                            ELSE SetUser(us, fields[2], EmptyDict)
               IN IF ~q.ok THEN us
                  ELSE LoadTransactionsLines_ReplaysReturns(
                         Tail(lines),
                         IF fields[1] = Str_Lend
                         THEN SetUser(known, fields[2],
                                  UserBorrowItem(known[fields[2]], fields[3], q.val))
                         ELSE IF fields[1] = Str_Return
                         THEN SetUser(known, fields[2],
                                  UserReturnItem(known[fields[2]], fields[3], q.val).items)
                         ELSE known)

\* load_transactions that catches the ValueError per line and reads on
RECURSIVE LoadTransactionsLines_SkipsBadLines(_, _)
LoadTransactionsLines_SkipsBadLines(lines, us) ==
  IF lines = <<>> THEN us
  ELSE LET fields == Split(Strip(Head(lines)), LogSep)
       IN IF Len(fields) # 4
          THEN LoadTransactionsLines_SkipsBadLines(Tail(lines), us)
          ELSE LET q == ParseInt(fields[4])
                   known == IF Known(us, fields[2]) THEN us
                            ELSE SetUser(us, fields[2], EmptyDict)
               IN IF ~q.ok
                  THEN LoadTransactionsLines_SkipsBadLines(Tail(lines), us)
                  ELSE LoadTransactionsLines_SkipsBadLines(
                         Tail(lines),
                         IF fields[1] = Str_Lend
                         THEN SetUser(known, fields[2],
                                  UserBorrowItem(known[fields[2]], fields[3], q.val))
                         ELSE known)

RECURSIVE LoadTransactionsLines(_, _)
LoadTransactionsLines(lines, us) ==
  IF lines = <<>> THEN us
  ELSE LET fields == Split(Strip(Head(lines)), LogSep)
       IN IF Len(fields) # 4 THEN us     \* ValueError on unpacking
          ELSE LET q == ParseInt(fields[4])
                   known == IF Known(us, fields[2]) THEN us
                            ELSE SetUser(us, fields[2], EmptyDict)
               IN IF ~q.ok THEN us       \* ValueError in int()
                  ELSE LoadTransactionsLines(
                         Tail(lines),
                         IF fields[1] = Str_Lend
                         THEN SetUser(known, fields[2],
                                  UserBorrowItem(known[fields[2]], fields[3], q.val))
                         ELSE known)

\* load_transactions into the empty users dict of __init__
LoadTransactions(file) ==
  IF ~file.exists THEN NoUsers ELSE LoadTransactionsLines(file.lines, NoUsers)

\* is_valid_item_name
IsValidItemName(name) == IsAlpha(name) /\ Len(name) > 2

(* ------------------------------- inputs ------------------------------- *)

\* what is typed at the prompts
ItemNameInputs == {Str_ham, Str_saw, Str_Saw, <<"a", "b">>}
\* Enter alone (the empty string) is the input that is no integer
QtyInputs == {Str_1, Str_2, Str_0, Str_minus1, Str_empty}
IndexInputs == {Str_0, Str_1, Str_2, Str_empty}
\* the answers to the prompts of lend_item and return_item, in order: the
\* name, the item number, the quantity; a call that ends early leaves the
\* later prompts unasked
Answers(name, indexes, quantities) ==
  {<<name>>} \cup {<<name, i>> : i \in indexes}
    \cup {<<name, i, q>> : i \in indexes, q \in quantities}
LendInputs ==
  Answers(Str_al_padded, IndexInputs, {Str_1, Str_9, Str_0, Str_empty})
    \cup Answers(Str_bo, {Str_1}, {Str_1})
ReturnInputs ==
  Answers(Str_al_padded, IndexInputs, {Str_1, Str_9, Str_0, Str_minus1, Str_empty})
    \cup Answers(Str_bo, {Str_1}, {Str_1, Str_9})
DoneInputs == {Str_done, <<" ", "D", "o", "n", "e">>}
\* what is typed at the quantity prompt of add_item until it is accepted
AttemptInputs ==
  {<<q>> : q \in QtyInputs} \cup {<<Str_0, Str_1>>, <<Str_empty, Str_1>>}

(* ------------------------------- state -------------------------------- *)

\* pc: "menu" (main_menu waits for a choice), "bulk" (bulk_add_items waits
\* for an entry), "exited", "crashed" (an exception left main_menu)
\* last: the operation that ran last and how it ended

Borrowed(us, user) == IF Known(us, user) THEN us[user] ELSE EmptyDict

\* the data an operation works on
Cur ==
  [inventory |-> inventory, users |-> users, invFile |-> invFile,
   logFile |-> logFile]

\* InventorySystem.__init__ that takes the lent quantities of the log off
\* the stock while it replays
Constructed_ReplayStock(invF, logF) ==
  LET inv == LoadInventory(invF)
      us == LoadTransactions(logF)
  IN [inventory |->
        [i \in 1..Len(inv) |->
           [k |-> inv[i].k,
            v |-> inv[i].v - HeldByAll(us, inv[i].k)]],
      users |-> us]

\* InventorySystem.__init__ on the two files: both dicts start empty,
\* load_inventory fills the inventory, load_transactions the users
Constructed(invF, logF) ==
  [inventory |-> LoadInventory(invF), users |-> LoadTransactions(logF)]

\* the first run, with neither file present
Init ==
  /\ pc = "menu"
  /\ invFile = NoFile
  /\ logFile = NoFile
  /\ inventory = Constructed(NoFile, NoFile).inventory
  /\ users = Constructed(NoFile, NoFile).users
  /\ last = [op |-> "Init", result |-> "ok"]

(* ------------------------------ operations ---------------------------- *)

\* the quantity prompts of add_item and bulk_add_items accept an integer > 0
AcceptsPositive(typed) == ParseInt(typed).ok /\ ParseInt(typed).val > 0

\* self.inventory[name] += qty, or the entry is created
AddOrIncrement(inv, name, qty) ==
  IF Has(inv, name) THEN Put(inv, name, Get(inv, name) + qty)
  ELSE Put(inv, name, qty)

\* add_item that asserts quantity >= 0
AddAttempt_AcceptsZero(st, name, qtyTyped) ==
  LET qty == ParseInt(qtyTyped)
      inv2 == AddOrIncrement(st.inventory, name, qty.val)
  IN IF ~qty.ok THEN [result |-> "value_error", st |-> st]
     ELSE IF ~(qty.val >= 0) THEN [result |-> "assertion_error", st |-> st]
     ELSE [result |-> "ok",
           st |-> [st EXCEPT !.inventory = inv2, !.invFile = SaveInventory(inv2)]]

\* one pass of the quantity loop of add_item on the data st, for a valid
\* name: what is typed is rejected (the prompt comes again) or added and saved
AddAttempt(st, name, qtyTyped) ==
  LET qty == ParseInt(qtyTyped)
      inv2 == AddOrIncrement(st.inventory, name, qty.val)
  IN IF ~qty.ok THEN [result |-> "value_error", st |-> st]
     ELSE IF ~AcceptsPositive(qtyTyped)
     THEN [result |-> "assertion_error", st |-> st]
     ELSE [result |-> "ok",
           st |-> [st EXCEPT !.inventory = inv2, !.invFile = SaveInventory(inv2)]]

\* the quantity loop of add_item on the data st: it leaves on the first
\* quantity that is accepted (attempts: what is typed at the prompt, in
\* order; asked: how many of them the loop read; result "asking": the
\* prompt is still open)
RECURSIVE AddOutcome(_, _, _)
AddOutcome(st, name, attempts) ==
  IF attempts = <<>> THEN [result |-> "asking", st |-> st, asked |-> 0]
  ELSE LET one == AddAttempt(st, name, Head(attempts))
       IN IF one.result = "ok"
          THEN [result |-> "ok", st |-> one.st, asked |-> 1]
          ELSE LET rest == AddOutcome(one.st, name, Tail(attempts))
               IN [rest EXCEPT !.asked = @ + 1]

\* add_item: the name prompt repeats until the name is valid
AddItem(nameTyped, attempts) ==
  /\ pc = "menu"
  /\ \E name \in {Lower(Strip(nameTyped))} :
     \E out \in {AddOutcome(Cur, name, attempts)} :
     /\ IsValidItemName(name)
     /\ out.result = "ok"
     /\ out.asked = Len(attempts)
     /\ Get(out.st.inventory, name) <= MaxQty
     /\ inventory' = out.st.inventory
     /\ invFile' = out.st.invFile
     /\ last' = [op |-> "AddItem", result |-> "ok"]
     /\ UNCHANGED <<pc, users, logFile>>

\* available_items of lend_item: the entries with stock, keys lowercased
RECURSIVE AvailableItems(_, _)
AvailableItems(inv, acc) ==
  IF inv = <<>> THEN acc
  ELSE AvailableItems(Tail(inv),
                      IF Head(inv).v > 0
                      THEN Put(acc, Lower(Head(inv).k), Head(inv).v)
                      ELSE acc)

\* how a call ended on the data st, and on which user, item and quantity
\* (asked: how many prompts the call put)
Ended(st, pcAfter, result, asked, user, item, qty) ==
  [pc |-> pcAfter, inventory |-> st.inventory, users |-> st.users,
   invFile |-> st.invFile, logFile |-> st.logFile,
   result |-> result, asked |-> asked, user |-> user, item |-> item,
   qty |-> qty]

\* the answer to the n-th prompt
Answer(answers, n) == IF n <= Len(answers) THEN answers[n] ELSE Str_empty

\* lend_item on the data st
LendOutcome(st, answers) ==
  LET nameTyped == Answer(answers, 1)
      indexTyped == Answer(answers, 2)
      qtyTyped == Answer(answers, 3)
      borrower == Strip(nameTyped)
      users1 == IF Known(st.users, borrower) THEN st.users
                ELSE SetUser(st.users, borrower, EmptyDict)
      st1 == [st EXCEPT !.users = users1]
      available == AvailableItems(st.inventory, EmptyDict)
      idx == ParseInt(indexTyped)
      chosen == available[idx.val].k
      qty == ParseInt(qtyTyped)
      users2 == SetUser(users1, borrower,
                        UserBorrowItem(users1[borrower], chosen, qty.val))
      inv2 == Put(st.inventory, chosen, Get(st.inventory, chosen) - qty.val)
  IN IF available = <<>>
     THEN Ended(st1, "menu", "no_items", 1, borrower, <<>>, 0)
     ELSE IF ~idx.ok
     THEN Ended(st1, "menu", "value_error", 2, borrower, <<>>, 0)
     ELSE IF idx.val - 1 < 0 \/ idx.val - 1 >= Len(available)
     THEN Ended(st1, "menu", "invalid_selection", 2, borrower, <<>>, 0)
     ELSE IF ~qty.ok
     THEN Ended(st1, "menu", "value_error", 3, borrower, chosen, 0)
     ELSE IF qty.val <= 0 \/ qty.val > available[idx.val].v
     THEN Ended(st1, "menu", "invalid_quantity", 3, borrower, chosen, qty.val)
     ELSE IF ~Has(st.inventory, chosen)
     \* KeyError after borrow_item: the exception leaves main_menu
     THEN Ended([st EXCEPT !.users = users2], "crashed", "key_error",
                3, borrower, chosen, qty.val)
     ELSE Ended([inventory |-> inv2, users |-> users2,
                 invFile |-> SaveInventory(inv2),
                 logFile |-> LogTransaction(st.logFile, Str_Lend, borrower,
                                            chosen, qty.val)],
                "menu", "ok", 3, borrower, chosen, qty.val)

LendItem(answers) ==
  /\ pc = "menu"
  /\ \E out \in {LendOutcome(Cur, answers)} :
     /\ out.asked = Len(answers)
     /\ Len(out.logFile.lines) <= MaxLog
     /\ out.result = "ok" =>
          Get(Borrowed(out.users, out.user), out.item) <= MaxQty
     /\ pc' = out.pc
     /\ inventory' = out.inventory
     /\ users' = out.users
     /\ invFile' = out.invFile
     /\ logFile' = out.logFile
     /\ last' = [op |-> "Lend", result |-> out.result]

\* return_item on the data st
ReturnOutcome(st, answers) ==
  LET nameTyped == Answer(answers, 1)
      indexTyped == Answer(answers, 2)
      qtyTyped == Answer(answers, 3)
      borrower == Strip(nameTyped)
      held == Borrowed(st.users, borrower)
      idx == ParseInt(indexTyped)
      chosen == held[idx.val].k
      qty == ParseInt(qtyTyped)
      ret == UserReturnItem(held, chosen, qty.val)
      users2 == SetUser(st.users, borrower, ret.items)
      inv2 == Put(st.inventory, chosen, Get(st.inventory, chosen) + qty.val)
  IN IF ~Known(st.users, borrower) \/ held = <<>>
     THEN Ended(st, "menu", "no_records", 1, borrower, <<>>, 0)
     ELSE IF ~idx.ok
     THEN Ended(st, "menu", "value_error", 2, borrower, <<>>, 0)
     ELSE IF idx.val - 1 < 0 \/ idx.val - 1 >= Len(held)
     THEN Ended(st, "menu", "invalid_selection", 2, borrower, <<>>, 0)
     ELSE IF ~qty.ok
     THEN Ended(st, "menu", "value_error", 3, borrower, chosen, 0)
     ELSE IF ~ret.ok
     \* user.return_item works on the user's own dict, whatever it answers
     THEN Ended([st EXCEPT !.users = users2], "menu", "not_enough", 3,
                borrower, chosen, qty.val)
     ELSE IF ~Has(st.inventory, chosen)
     \* KeyError after User.return_item: the exception leaves main_menu
     THEN Ended([st EXCEPT !.users = users2], "crashed", "key_error",
                3, borrower, chosen, qty.val)
     ELSE Ended([inventory |-> inv2, users |-> users2,
                 invFile |-> SaveInventory(inv2),
                 logFile |-> LogTransaction(st.logFile, Str_Return, borrower,
                                            chosen, qty.val)],
                "menu", "ok", 3, borrower, chosen, qty.val)

ReturnItem(answers) ==
  /\ pc = "menu"
  /\ \E out \in {ReturnOutcome(Cur, answers)} :
     /\ out.asked = Len(answers)
     /\ Len(out.logFile.lines) <= MaxLog
     /\ out.qty < 0 =>
          /\ GetOr0(Borrowed(out.users, out.user), out.item) <= MaxQty
          /\ GetOr0(out.inventory, out.item) >= 0 - MaxQty
     /\ pc' = out.pc
     /\ inventory' = out.inventory
     /\ users' = out.users
     /\ invFile' = out.invFile
     /\ logFile' = out.logFile
     /\ last' = [op |-> "Return", result |-> out.result]

\* update_item that asserts new_quantity > 0
UpdateOutcome_Positive(st, name, qtyTyped) ==
  LET qty == ParseInt(qtyTyped)
      inv2 == Put(st.inventory, name, qty.val)
  IN IF ~Has(st.inventory, name) THEN [result |-> "unknown_item", st |-> st]
     ELSE IF ~qty.ok THEN [result |-> "value_error", st |-> st]
     ELSE IF ~(qty.val > 0) THEN [result |-> "assertion_error", st |-> st]
     ELSE [result |-> "ok",
           st |-> [st EXCEPT !.inventory = inv2, !.invFile = SaveInventory(inv2)]]

\* update_item on the data st, for a valid name: [ok, st]
UpdateOutcome(st, name, qtyTyped) ==
  LET qty == ParseInt(qtyTyped)
      inv2 == Put(st.inventory, name, qty.val)
  IN IF ~Has(st.inventory, name) THEN [result |-> "unknown_item", st |-> st]
     ELSE IF ~qty.ok THEN [result |-> "value_error", st |-> st]
     ELSE IF ~(qty.val >= 0) THEN [result |-> "assertion_error", st |-> st]
     ELSE [result |-> "ok",
           st |-> [st EXCEPT !.inventory = inv2, !.invFile = SaveInventory(inv2)]]

\* update_item: the name is used as typed and its prompt repeats until the
\* name is valid
UpdateItem(nameTyped, qtyTyped) ==
  /\ pc = "menu"
  /\ IsValidItemName(nameTyped)
  /\ \E out \in {UpdateOutcome(Cur, nameTyped, qtyTyped)} :
     /\ GetOr0(out.st.inventory, nameTyped) <= MaxQty
     /\ inventory' = out.st.inventory
     /\ invFile' = out.st.invFile
     /\ last' = [op |-> "UpdateItem", result |-> out.result]
     /\ UNCHANGED <<pc, users, logFile>>

\* bulk_add_items is entered from the menu and then prompts for entries
BulkAddItems ==
  /\ pc = "menu"
  /\ pc' = "bulk"
  /\ last' = [op |-> "BulkAddItems", result |-> "ok"]
  /\ UNCHANGED <<inventory, users, invFile, logFile>>

\* bulk_add_items that saves once, after 'done', instead of per entry
BulkEntryOutcome_Batched(st, name, qtyTyped) ==
  LET qty == ParseInt(qtyTyped)
      inv2 == AddOrIncrement(st.inventory, name, qty.val)
  IN IF ~qty.ok THEN [result |-> "value_error", st |-> st]
     ELSE IF ~(qty.val > 0) THEN [result |-> "assertion_error", st |-> st]
     ELSE [result |-> "ok", st |-> [st EXCEPT !.inventory = inv2]]

\* one entry of bulk_add_items on the data st: a rejected quantity goes back
\* to the name prompt, an accepted one is added and saved at once
BulkEntryOutcome(st, name, qtyTyped) ==
  LET qty == ParseInt(qtyTyped)
      inv2 == AddOrIncrement(st.inventory, name, qty.val)
  IN IF ~qty.ok THEN [result |-> "value_error", st |-> st]
     ELSE IF ~(qty.val > 0) THEN [result |-> "assertion_error", st |-> st]
     ELSE [result |-> "ok",
           st |-> [st EXCEPT !.inventory = inv2, !.invFile = SaveInventory(inv2)]]

BulkEntry(nameTyped, qtyTyped) ==
  /\ pc = "bulk"
  /\ \E name \in {Lower(Strip(nameTyped))} :
     \E out \in {BulkEntryOutcome(Cur, name, qtyTyped)} :
     /\ name # Str_done
     /\ IsValidItemName(name)
     /\ GetOr0(out.st.inventory, name) <= MaxQty
     /\ inventory' = out.st.inventory
     /\ invFile' = out.st.invFile
     /\ last' = [op |-> "BulkAdd", result |-> out.result]
     /\ UNCHANGED <<pc, users, logFile>>

\* 'done' at either name prompt of bulk_add_items
BulkDone(nameTyped) ==
  /\ pc = "bulk"
  /\ Lower(Strip(nameTyped)) = Str_done
  /\ pc' = "menu"
  /\ last' = [op |-> "BulkDone", result |-> "ok"]
  /\ UNCHANGED <<inventory, users, invFile, logFile>>

\* choice 8 of main_menu: save and leave
Exit ==
  /\ pc = "menu"
  /\ invFile' = SaveInventory(inventory)
  /\ pc' = "exited"
  /\ last' = [op |-> "Exit", result |-> "ok"]
  /\ UNCHANGED <<inventory, users, logFile>>

\* the inventory file is gone when the program is started again (the
\* FileNotFoundError case of load_inventory); the log is still there
InventoryFileMissing ==
  /\ pc \in {"exited", "crashed"}
  /\ invFile.exists
  /\ invFile' = NoFile
  /\ last' = [op |-> "InventoryFileMissing", result |-> "ok"]
  /\ UNCHANGED <<pc, inventory, users, logFile>>

\* InventorySystem.__init__ of the next run: both dicts start empty and
\* are loaded from the files
Startup ==
  /\ pc \in {"exited", "crashed"}
  /\ pc' = "menu"
  /\ \E made \in {Constructed(invFile, logFile)} :
     /\ inventory' = made.inventory
     /\ users' = made.users
  /\ last' = [op |-> "Startup", result |-> "ok"]
  /\ UNCHANGED <<invFile, logFile>>

Next ==
  \/ \E n \in ItemNameInputs, a \in AttemptInputs : AddItem(n, a)
  \/ \E a \in LendInputs : LendItem(a)
  \/ \E a \in ReturnInputs : ReturnItem(a)
  \/ \E n \in ItemNameInputs, q \in QtyInputs : UpdateItem(n, q)
  \/ BulkAddItems
  \/ \E n \in ItemNameInputs, q \in QtyInputs : BulkEntry(n, q)
  \/ \E n \in DoneInputs : BulkDone(n)
  \/ Exit
  \/ InventoryFileMissing
  \/ Startup

Spec == Init /\ [][Next]_vars

(* ----------------- a run started on files found on disk ---------------- *)

\* lines of an inventory file: two the program writes, one without the
\* separator, one whose quantity is no integer
InventoryFileLines ==
  {InventoryLine([k |-> Str_ham, v |-> 1]),
   InventoryLine([k |-> Str_saw, v |-> 0]),
   Str_ham \o Newline,
   Str_saw \o InventorySep \o <<"x">> \o Newline}

\* lines of a log: records the program writes, one with three fields, one
\* whose quantity is no integer
LogFileLines ==
  {LogLine(Str_Lend, Str_al, Str_ham, 1),
   LogLine(Str_Return, Str_al, Str_ham, 1),
   LogLine(Str_Return, <<"b", "o">>, Str_saw, 1),
   Str_Lend \o LogSep \o Str_al \o LogSep \o Str_ham \o Newline,
   Str_Lend \o LogSep \o Str_al \o LogSep \o Str_ham \o LogSep \o <<"x">>
     \o Newline}

SeqsUpTo(S, n) == UNION {[1..k -> S] : k \in 0..n}

FilesOf(S, n) ==
  {NoFile} \cup {[exists |-> TRUE, lines |-> l] : l \in SeqsUpTo(S, n)}

\* the program is not running and the two files are what is found on disk
LoadInit ==
  /\ pc = "exited"
  /\ invFile \in FilesOf(InventoryFileLines, MaxInventoryLines)
  /\ logFile \in FilesOf(LogFileLines, MaxLogLines)
  /\ inventory = EmptyDict
  /\ users = NoUsers
  /\ last = [op |-> "Init", result |-> "ok"]

\* the program is started, left by choice 8, started again
LoadNext ==
  \/ Startup
  \/ Exit

LoadSpec == LoadInit /\ [][LoadNext]_vars

(* ------------------------------ properties ---------------------------- *)

ItemNames == {Str_ham, Str_saw}
BorrowerNames == {Strip(a[1]) : a \in LendInputs \cup ReturnInputs}

\* the program is running (its dicts are alive)
Live == pc \in {"menu", "bulk"}

LastIs(op, result) == last = [op |-> op, result |-> result]

DataOf(out) ==
  [inventory |-> out.inventory, users |-> out.users, invFile |-> out.invFile,
   logFile |-> out.logFile]

\* the quantity a log line records for (action, user, item), 0 when the
\* line is no such record
RecordQty(line, action, user, item) ==
  LET prefix == action \o LogSep \o user \o LogSep \o item \o LogSep
      q == ParseInt(SubSeq(line, Len(prefix) + 1, Len(line)))
  IN IF StartsWith(line, prefix) /\ q.ok THEN q.val ELSE 0

RECURSIVE LogSum(_, _, _, _)
LogSum(lines, action, user, item) ==
  IF lines = <<>> THEN 0
  ELSE RecordQty(Head(lines), action, user, item)
       + LogSum(Tail(lines), action, user, item)

\* the position of a key in a dict, as typed at a selection prompt
PositionTyped(d, key) == IntToStr(CHOOSE i \in 1..Len(d) : d[i].k = key)

\* C1: every quantity in the inventory map is >= 0 (violated: return_item
\* accepts a negative quantity and adds it to the stock)
C1_InventoryNonNegative ==
  \A i \in 1..Len(inventory) : inventory[i].v >= 0

\* C2: every entry of every user's borrowed map has a quantity > 0
C2_BorrowedPositive ==
  \A u \in DOMAIN users : \A j \in 1..Len(users[u]) : users[u][j].v > 0

\* a return of all that was held has removed the entry
C2_Witness ==
  /\ LastIs("Return", "ok")
  /\ logFile.lines[Len(logFile.lines)] = LogLine(Str_Return, Str_al, Str_ham, 1)
  /\ Known(users, Str_al)
  /\ ~Has(users[Str_al], Str_ham)

\* C3: for every (user, item), the Lend quantities minus the Return
\* quantities of the log equal the user's borrowed quantity (violated after a
\* restart: the replay applies the Lend records only)
C3_LogMatchesBorrowed ==
  Live =>
    \A u \in BorrowerNames, item \in ItemNames :
      LogSum(logFile.lines, Str_Lend, u, item)
        - LogSum(logFile.lines, Str_Return, u, item)
      = GetOr0(Borrowed(users, u), item)

\* C4: while the program runs, the inventory file read back is the
\* inventory map (after every operation and every bulk entry)
C4_WriteThrough ==
  Live => LoadInventory(invFile) = inventory

\* a second bulk entry has been added and the bulk prompt is still open
C4_Witness ==
  /\ pc = "bulk"
  /\ LastIs("BulkAdd", "ok")
  /\ Len(inventory) = 2
  /\ Len(invFile.lines) = 2

\* C5: a step of LendItem or ReturnItem that changes a user's borrowed
\* quantity of an item changes the stock of that item by the opposite
\* amount, appends one log record and rewrites the inventory file (violated:
\* a return of an item the inventory does not hold stops with KeyError
\* after the user's entry was reduced)
C5_LendReturnAtomic ==
  [][last'.op \in {"Lend", "Return"} =>
       \A u \in BorrowerNames, item \in ItemNames :
         LET change == GetOr0(Borrowed(users', u), item)
                         - GetOr0(Borrowed(users, u), item)
         IN change # 0 =>
              /\ Has(inventory', item)
              /\ Get(inventory', item) = GetOr0(inventory, item) - change
              /\ Len(logFile'.lines) = Len(logFile.lines) + 1
              /\ invFile' = SaveInventory(inventory')]_vars

\* what LendItem(u, item, k) does on an item in stock, Expected(held, k)
\* being u's borrowed quantity afterwards
LendEffect(Expected(_, _)) ==
  pc = "menu" =>
    \A a \in LendInputs :
      Len(a) = 3 =>
        \A out \in {LendOutcome(Cur, a)} :
          LET u == Strip(a[1])
              k == ParseInt(a[3])
              q == GetOr0(inventory, out.item)
              held == GetOr0(Borrowed(users, u), out.item)
          IN (out.item # <<>> /\ k.ok) =>
               /\ (0 < k.val /\ k.val <= q) =>
                    /\ out.result = "ok"
                    /\ Get(out.inventory, out.item) = q - k.val
                    /\ GetOr0(Borrowed(out.users, u), out.item) = Expected(held, k.val)
                    /\ out.logFile.lines =
                         Append(logFile.lines, LogLine(Str_Lend, u, out.item, k.val))
               /\ k.val > q =>
                    /\ out.result # "ok"
                    /\ out.inventory = inventory

\* C6 as stated: a successful LendItem sets u's borrowed[item] to k
C6_LendSetsBorrowed == LendEffect(LAMBDA held, k : k)

\* C6: LendItem(u, item, k) with 0 < k <= q succeeds, leaves q - k in stock,
\* adds k to what u holds of the item and appends one Lend record; with
\* k > q it fails and the inventory is unchanged
C6_LendAddsToBorrowed == LendEffect(LAMBDA held, k : held + k)

\* al, who held one ham, has been lent one more
C6_Witness ==
  /\ LastIs("Lend", "ok")
  /\ logFile.lines = <<LogLine(Str_Lend, Str_al, Str_ham, 1),
                       LogLine(Str_Lend, Str_al, Str_ham, 1)>>
  /\ Get(users[Str_al], Str_ham) = 2

\* what ReturnItem(u, item, k) does right after LendItem(u, item, k),
\* After(before, after) relating u's borrowed_items before the lend and
\* after the return
LendThenReturn(After(_, _, _)) ==
  pc = "menu" =>
    \A a \in LendInputs :
      Len(a) = 3 =>
        \A lent \in {LendOutcome(Cur, a)} :
          lent.result = "ok" =>
            \A back \in {ReturnOutcome(
                           DataOf(lent),
                           <<a[1],
                             PositionTyped(Borrowed(lent.users, lent.user), lent.item),
                             a[3]>>)} :
              /\ back.result = "ok"
              /\ back.item = lent.item
              /\ Get(back.inventory, lent.item) = Get(inventory, lent.item)
              /\ After(Borrowed(users, lent.user),
                       Borrowed(back.users, lent.user), lent.item)

\* C7 as stated: after the return u has no entry for the item
C7_ReturnRemovesEntry ==
  LendThenReturn(LAMBDA before, after, item : ~Has(after, item))

\* C7: LendItem(u, item, k) followed by ReturnItem(u, item, k) succeeds,
\* restores the stock of the item and leaves u holding of the item what u
\* held before the lend (no entry when u held none)
C7_ReturnRestores ==
  LendThenReturn(LAMBDA before, after, item :
                   /\ Has(after, item) = Has(before, item)
                   /\ GetOr0(after, item) = GetOr0(before, item))

\* al was lent one ham and has returned it: no entry is left
C7_Witness ==
  /\ LastIs("Return", "ok")
  /\ logFile.lines = <<LogLine(Str_Lend, Str_al, Str_ham, 1),
                       LogLine(Str_Return, Str_al, Str_ham, 1)>>
  /\ Borrowed(users, Str_al) = EmptyDict
  /\ Get(inventory, Str_ham) >= 1

\* C8: a LendItem whose precondition fails changes neither the inventory,
\* nor the users, nor the log, nor the inventory file (violated: lend_item
\* registers the borrower before it checks anything)
C8_FailedLendChangesNothing ==
  [][(last'.op = "Lend"
        /\ last'.result \in {"no_items", "invalid_selection", "invalid_quantity"})
       => UNCHANGED <<inventory, users, logFile, invFile>>]_vars

\* C9: a ReturnItem that fails (unknown user, nothing held, selection out
\* of range, more than is held) changes neither the inventory, nor the
\* users, nor the log, nor the inventory file
C9_FailedReturnChangesNothing ==
  [][(last'.op = "Return"
        /\ last'.result \in {"no_records", "invalid_selection", "not_enough"})
       => UNCHANGED <<inventory, users, logFile, invFile>>]_vars

\* al, who holds something, asked to return more than is held
C9_Witness ==
  /\ LastIs("Return", "not_enough")
  /\ Borrowed(users, Str_al) # EmptyDict
  /\ logFile.lines = <<LogLine(Str_Lend, Str_al, Str_ham, 1)>>

\* the action and the quantity a log line records
LineAction(line) == Split(Strip(line), LogSep)[1]
LineQty(line) ==
  LET fields == Split(Strip(line), LogSep) IN ParseInt(fields[Len(fields)])

\* C10: every record of the log has action Lend or Return and an integer
\* quantity > 0 (violated: return_item logs the 0 or negative quantity it
\* was given)
C10_LogQuantitiesPositive ==
  \A i \in 1..Len(logFile.lines) :
    /\ LineAction(logFile.lines[i]) \in {Str_Lend, Str_Return}
    /\ LineQty(logFile.lines[i]).ok
    /\ LineQty(logFile.lines[i]).val > 0

IsPrefix(s, t) == Len(s) <= Len(t) /\ SubSeq(t, 1, Len(s)) = s

\* C11: in every step the log before is a prefix of the log after; a
\* successful LendItem or ReturnItem adds exactly one record, its own, at the
\* end, and every other step (failed calls, the other operations, exit,
\* startup) leaves the log as it is
C11_LogAppendOnly ==
  [][/\ IsPrefix(logFile.lines, logFile'.lines)
     /\ (last'.op \in {"Lend", "Return"} /\ last'.result = "ok") =>
          /\ Len(logFile'.lines) = Len(logFile.lines) + 1
          /\ LineAction(logFile'.lines[Len(logFile'.lines)])
               = (IF last'.op = "Lend" THEN Str_Lend ELSE Str_Return)
     /\ ~(last'.op \in {"Lend", "Return"} /\ last'.result = "ok") =>
          logFile' = logFile]_vars

\* a lend and then a return were logged in that order, and the log is the
\* same after exit and restart
C11_Witness ==
  /\ LastIs("Startup", "ok")
  /\ Len(logFile.lines) = 2
  /\ LineAction(logFile.lines[1]) = Str_Lend
  /\ LineAction(logFile.lines[2]) = Str_Return

\* a line load_inventory can read: two fields around ': ', the second an
\* integer
WellFormedInventoryLine(line) ==
  LET fields == Split(Strip(line), InventorySep)
  IN Len(fields) = 2 /\ ParseInt(fields[2]).ok

\* C12: after a start on an inventory file with a malformed line the
\* inventory map is empty (violated: the entries read before the malformed
\* line stay in the map)
C12_MalformedLoadsEmpty ==
  (/\ LastIs("Startup", "ok")
   /\ \E i \in 1..Len(invFile.lines) : ~WellFormedInventoryLine(invFile.lines[i]))
  => inventory = EmptyDict

\* valid item names and quantities >= 0
ValidInventory(inv) ==
  \A i \in 1..Len(inv) : IsValidItemName(inv[i].k) /\ inv[i].v >= 0

\* C13: an inventory map with valid names and quantities >= 0 that is saved
\* (exit) and loaded into an empty system (the next start) comes back with
\* the same keys and the same quantities
C13_SaveLoadRoundTrip ==
  [][(last.op = "Exit" /\ last'.op = "Startup" /\ ValidInventory(inventory))
       => inventory' = inventory]_vars

\* two items, one of them with quantity 0, came back from the file
C13_Witness ==
  /\ LastIs("Startup", "ok")
  /\ Len(inventory) = 2
  /\ ValidInventory(inventory)
  /\ \E i \in 1..Len(inventory) : inventory[i].v = 0
  /\ invFile = SaveInventory(inventory)

\* the entries of the dict d under other keys than key are those of the
\* dict e, in the same order
SameElsewhere(d, e, key) ==
  LET others(x) == SelectSeq(x, LAMBDA entry : entry.k # key)
  IN others(d) = others(e)

\* C14: AddItem(name, qty) with a valid name and qty > 0 adds qty to the
\* stored quantity of name (the entry is created with qty when absent) and
\* leaves the other items, the users and the log as they are; twice on an
\* inventory without the item it gives 2 * qty; a quantity <= 0 is rejected:
\* nothing is changed, the file is not rewritten, and the quantity typed
\* next is handled as if it were the first
C14_AddItemAdds ==
  pc = "menu" =>
    \A name \in ItemNames, typed \in QtyInputs :
      ParseInt(typed).ok =>
        \A out \in {AddOutcome(Cur, name, <<typed>>)} :
          LET qty == ParseInt(typed).val
          IN /\ qty > 0 =>
                  /\ out.result = "ok"
                  /\ Has(out.st.inventory, name)
                  /\ Get(out.st.inventory, name) = GetOr0(inventory, name) + qty
                  /\ SameElsewhere(out.st.inventory, inventory, name)
                  /\ out.st.users = users
                  /\ out.st.logFile = logFile
                  /\ ~Has(inventory, name) =>
                       Get(AddOutcome(out.st, name, <<typed>>).st.inventory, name)
                         = 2 * qty
             /\ qty <= 0 =>
                  /\ out.result # "ok"
                  /\ out.st = Cur
                  /\ AddOutcome(Cur, name, <<typed, Str_1>>).st
                       = AddOutcome(Cur, name, <<Str_1>>).st

\* a second ham was added next to another item, with a user on record
C14_Witness ==
  /\ LastIs("AddItem", "ok")
  /\ Len(inventory) = 2
  /\ GetOr0(inventory, Str_ham) = 2
  /\ Known(users, Str_al)

\* C15: UpdateItem(name, qty) on an item of the inventory with qty >= 0
\* (0 included) sets its quantity to qty, whatever it was and whatever is
\* lent out, and saves the inventory; with qty < 0 the inventory map and the
\* inventory file stay as they are
C15_UpdateItemSets ==
  pc = "menu" =>
    \A name \in ItemNameInputs, typed \in QtyInputs :
      (IsValidItemName(name) /\ Has(inventory, name) /\ ParseInt(typed).ok) =>
        \A out \in {UpdateOutcome(Cur, name, typed)} :
          LET qty == ParseInt(typed).val
          IN /\ qty >= 0 =>
                  /\ out.result = "ok"
                  /\ Get(out.st.inventory, name) = qty
                  /\ SameElsewhere(out.st.inventory, inventory, name)
                  /\ out.st.invFile = SaveInventory(out.st.inventory)
                  /\ LoadInventory(out.st.invFile) = out.st.inventory
                  /\ out.st.users = users
             /\ qty < 0 =>
                  /\ out.result # "ok"
                  /\ out.st.inventory = inventory
                  /\ out.st.invFile = invFile

\* the stock of ham was set to 0 while al holds ham
C15_Witness ==
  /\ LastIs("UpdateItem", "ok")
  /\ Has(inventory, Str_ham)
  /\ Get(inventory, Str_ham) = 0
  /\ GetOr0(Borrowed(users, Str_al), Str_ham) >= 1
  /\ Len(logFile.lines) = 1

\* C16: after a start the inventory map is what load_inventory made of the
\* inventory file, whatever the log holds (records, malformed lines, no
\* file): the replay of the log does not touch it
C16_ReplayKeepsInventory ==
  LastIs("Startup", "ok") => inventory = LoadInventory(invFile)

\* a Lend record of ham was replayed for al and the stock of ham is the 1
\* of the inventory file
C16_Witness ==
  /\ LastIs("Startup", "ok")
  /\ invFile.lines = <<InventoryLine([k |-> Str_ham, v |-> 1])>>
  /\ Len(logFile.lines) >= 1
  /\ logFile.lines[1] = LogLine(Str_Lend, Str_al, Str_ham, 1)
  /\ GetOr0(inventory, Str_ham) = 1
  /\ GetOr0(Borrowed(users, Str_al), Str_ham) >= 1

\* a line load_transactions can read: four fields around ' | ', the last an
\* integer
WellFormedLogLine(line) ==
  LET fields == Split(Strip(line), LogSep)
  IN Len(fields) = 4 /\ ParseInt(fields[4]).ok

\* the lines before the first malformed one (all of them when there is none)
BeforeFault(lines) ==
  IF \A i \in 1..Len(lines) : WellFormedLogLine(lines[i]) THEN lines
  ELSE SubSeq(lines, 1,
              (CHOOSE i \in 1..Len(lines) :
                 /\ ~WellFormedLogLine(lines[i])
                 /\ \A j \in 1..(i - 1) : WellFormedLogLine(lines[j])) - 1)

\* the borrower a well-formed log line names
LineBorrower(line) == Split(Strip(line), LogSep)[2]

\* after a start, every user's borrowed quantity of every item is the sum
\* of the Lend records of the lines read, and the known users are the
\* borrowers those lines name (Return records included)
ReplayedFrom(read) ==
  LastIs("Startup", "ok") =>
    /\ \A u \in BorrowerNames \cup DOMAIN users, item \in ItemNames :
         GetOr0(Borrowed(users, u), item) = LogSum(read, Str_Lend, u, item)
    /\ DOMAIN users = {LineBorrower(read[i]) : i \in 1..Len(read)}

C18_ReplayStopsAtFault ==
  (/\ LastIs("Startup", "ok")
   /\ \E i \in 1..Len(logFile.lines) : ~WellFormedLogLine(logFile.lines[i]))
  => /\ pc = "menu"
     /\ users = LoadTransactions(
                   [exists |-> TRUE, lines |-> BeforeFault(logFile.lines)])

\* a Lend record, a line of three fields, the Lend record again: al holds
\* the one ham of the first line
C18_Witness ==
  /\ LastIs("Startup", "ok")
  /\ logFile.lines =
       <<LogLine(Str_Lend, Str_al, Str_ham, 1),
         Str_Lend \o LogSep \o Str_al \o LogSep \o Str_ham \o Newline,
         LogLine(Str_Lend, Str_al, Str_ham, 1)>>
  /\ Borrowed(users, Str_al) = Put(EmptyDict, Str_ham, 1)

\* what there is of an item: in stock and with all users
TotalOf(inv, us, item) == GetOr0(inv, item) + HeldByAll(us, item)

\* C19: every step of LendItem and of ReturnItem, successful or not and
\* with any integer typed as quantity, leaves for every item the stock plus
\* what all users hold of it as it was (violated: a return of an item the
\* inventory does not hold stops with KeyError after the user's entry was
\* reduced)
C19_StockConserved ==
  [][last'.op \in {"Lend", "Return"} =>
       \A item \in ItemNames :
         TotalOf(inventory', users', item) = TotalOf(inventory, users, item)]_vars

====
